---------------------------- MODULE Spec2Model ----------------------------
(* A model of the credential subsystem of the stripe-cli fork:              *)
(*   - loadDotenvFromFlags   (pkg/cmd/dotenv.go)                             *)
(*   - the whoami command    (package cmd, newWhoamiCmd)                    *)
(*   - LoginWithAPIKey       (pkg/login/api_key_login.go)                    *)
(* Strings whose characters matter (API keys, values) are sequences of      *)
(* one-character strings; names that are only compared (variable names,     *)
(* paths, log kinds) are TLA+ strings.                                       *)
EXTENDS Integers, Sequences, FiniteSets, TLC

VARIABLES
    envFile,        \* --env-file flag (package variable envFile)
    dotenv,         \* --dotenv flag (package variable dotenv)
    fs,             \* the file system: path -> file
    environ,        \* the process environment: name -> [set, val]
    pc,             \* where the process is: start, ready, panicked, done
    panicMsg,       \* which panic ended loadDotenvFromFlags ("" = none)
    logged,         \* log records written by loadDotenvFromFlags
    printedLoaded,  \* "Loaded environment variables from ..." printed
    profilesFile,   \* the plaintext profile file: the fields of the profile's block
    KeyRing,        \* the secure store: [available, live_mode_api_key]
    asJSON,         \* whoami --json
    showKeys,       \* whoami --show-keys
    now,            \* time.Now(), in hours
    stdout,         \* what the command wrote: a sequence of [field, value]
    cfgProfile,     \* cfg.Profile: DeviceName, TestModeAPIKey, DisplayName
    lastLogin,      \* the last LoginWithAPIKey call: its error, what it reached
    logins,         \* LoginWithAPIKey calls made so far
    activeProfile,  \* whether Config.GetProfile() gives a profile
    whoamiErr       \* the error whoami returned ("" = none)

dotenvVars == <<envFile, dotenv, fs, environ, panicMsg, logged, printedLoaded>>

(***************************************************************************)
(* Bounds                                                                  *)
(***************************************************************************)
MaxLines == 2
MaxDay == 1
MaxNow == 50
MaxLogins == 2

(***************************************************************************)
(* Strings                                                                 *)
(***************************************************************************)
EmptyStr == <<>>

SkTest123 == <<"s","k","_","t","e","s","t","_","1","2","3">>
SkTest456 == <<"s","k","_","t","e","s","t","_","4","5","6">>
SkTestExisting == <<"s","k","_","t","e","s","t","_","e","x">>
TestDevice == <<"t","e","s","t","_","d","e","v">>
DeviceFromEnv == <<"d","e","v","-","e","n","v">>

(***************************************************************************)
(* The process environment                                                 *)
(***************************************************************************)
EnvNames == {"STRIPE_SECRET_KEY", "STRIPE_DEVICE_NAME", "STRIPE_API_KEY"}

Unset == [set |-> FALSE, val |-> EmptyStr]
Present(v) == [set |-> TRUE, val |-> v]

\* os.LookupEnv(k): the value and whether the variable is present.
LookupEnv(e, k) == e[k]

\* os.Getenv(k): the value, "" when the variable is absent.
Getenv(e, k) == IF e[k].set THEN e[k].val ELSE EmptyStr

\* os.Setenv(k, v)
Setenv(e, k, v) == [e EXCEPT ![k] = [set |-> TRUE, val |-> v]]

(***************************************************************************)
(* Files                                                                   *)
(***************************************************************************)
DotEnvPath == ".env"
CustomPath == "custom.env"
NoPath == ""
Paths == {DotEnvPath, CustomPath}

\* The permission bits the tests give their files: 0600 and 0644.
Mode0600 == 384
Mode0644 == 420

NoFile == [stat |-> "notexist", mode |-> 0, lines |-> <<>>]
\* A file os.Stat cannot reach (its directory denies search): the file itself
\* is there, with owner-only permissions and a well-formed line.
StatFails ==
    [stat |-> "error", mode |-> Mode0600,
     lines |-> <<[key |-> "STRIPE_SECRET_KEY", val |-> <<"s","k","_","t","e","s","t","_","1","2","3">>, ok |-> TRUE]>>]

\* mode&0004 != 0
WorldReadable(mode) == (mode \div 4) % 2 = 1

\* godotenv.Read(path): every line must parse; a later line for a name
\* replaces an earlier one.
LastIndexOf(lines, k) ==
    CHOOSE i \in DOMAIN lines :
        /\ lines[i].key = k
        /\ \A j \in DOMAIN lines : lines[j].key = k => j <= i

godotenvRead(f) ==
    IF \E i \in DOMAIN f.lines : ~f.lines[i].ok
    THEN [err |-> TRUE, env |-> <<>>]
    ELSE [err |-> FALSE,
          env |-> [k \in {f.lines[i].key : i \in DOMAIN f.lines} |->
                      f.lines[LastIndexOf(f.lines, k)].val]]

(***************************************************************************)
(* loadDotenvFromFlags                                                     *)
(***************************************************************************)
\* Variants of the allow-list: every name of the file, the secret key alone.
allowlistMutAll == <<"STRIPE_SECRET_KEY", "STRIPE_DEVICE_NAME", "STRIPE_API_KEY">>
allowlistMutSecretOnly == <<"STRIPE_SECRET_KEY">>
allowlist == <<"STRIPE_SECRET_KEY", "STRIPE_DEVICE_NAME">>

\* The switch choosing the file.
SelectedPath == IF envFile # NoPath THEN envFile ELSE DotEnvPath

explicitlyRequested == envFile # NoPath \/ dotenv

\* if _, exists := os.LookupEnv(k); !exists
\* (variant: an empty value counts as absent)
MaySetMutNonEmpty(e, k) == Getenv(e, k) = EmptyStr
MaySet(e, k) == ~LookupEnv(e, k).set

\* for _, k := range allowlist { ... }, from index i on.
RECURSIVE ImportFrom(_, _, _)
ImportFrom(e, env, i) ==
    IF i > Len(allowlist) THEN e
    ELSE LET k == allowlist[i]
             e1 == IF k \in DOMAIN env /\ MaySet(e, k)
                   THEN Setenv(e, k, env[k])
                   ELSE e
         IN  ImportFrom(e1, env, i + 1)

\* What the checks ahead of godotenv.Read decide: "panic:<kind>", "return",
\* "skip" (warning, return) or "read".
\* (variant: a world-readable file is skipped whoever asked for it)
GateMutSkipAlways(f) ==
    CASE f.stat = "notexist" ->
            IF explicitlyRequested THEN "panic:notfound" ELSE "return"
      [] f.stat = "error" ->
            IF explicitlyRequested THEN "panic:stat" ELSE "return"
      [] f.stat = "ok" /\ WorldReadable(f.mode) -> "skip"
      [] OTHER -> "read"
Gate(f) ==
    CASE f.stat = "notexist" ->
            IF explicitlyRequested THEN "panic:notfound" ELSE "return"
      [] f.stat = "error" ->
            IF explicitlyRequested THEN "panic:stat" ELSE "return"
      [] f.stat = "ok" /\ WorldReadable(f.mode) ->
            IF explicitlyRequested THEN "panic:insecure" ELSE "skip"
      [] OTHER -> "read"

\* The environment the function leaves, given the gate's decision.
\* (variant: the file is imported before the permission check)
EnvAfterMutEager(f, g) ==
    IF f.stat = "ok" /\ ~godotenvRead(f).err
    THEN ImportFrom(environ, godotenvRead(f).env, 1)
    ELSE environ
EnvAfter(f, g) ==
    IF g = "read" /\ ~godotenvRead(f).err
    THEN ImportFrom(environ, godotenvRead(f).env, 1)
    ELSE environ

loadDotenvFromFlags ==
    /\ pc = "start"
    /\ LET f == fs[SelectedPath]
           g == Gate(f)
           r == godotenvRead(f)
       IN  /\ environ' = EnvAfter(f, g)
           /\ panicMsg' = CASE g \in {"panic:notfound", "panic:stat", "panic:insecure"} -> g
                            [] g = "read" /\ r.err -> "panic:read"
                            [] OTHER -> ""
           /\ logged' = CASE f.stat = "ok" /\ WorldReadable(f.mode) -> {"warn:permissive"}
                          [] g = "read" /\ ~r.err -> {"debug:loaded"}
                          [] OTHER -> {}
           /\ printedLoaded' = (g = "read" /\ ~r.err /\ dotenv)
           /\ pc' = IF panicMsg' = "" THEN "ready" ELSE "panicked"
    /\ UNCHANGED <<envFile, dotenv, fs, profilesFile, KeyRing, asJSON, showKeys, now, stdout,
                   cfgProfile, lastLogin, logins, activeProfile, whoamiErr>>

(***************************************************************************)
(* The profile: plaintext file, secure store, resolution                   *)
(***************************************************************************)
SkTest1234abcd == <<"s","k","_","t","e","s","t","_","1","2","3","4","a","b","c","d">>
RkLive0001 == <<"r","k","_","l","i","v","e","_","0","0","0","1">>
SkLive9999 == <<"s","k","_","l","i","v","e","_","9","9","9","9">>
StrTrue == <<"t","r","u","e">>
StrFalse == <<"f","a","l","s","e">>
StrTest == <<"t","e","s","t">>
StrAlice == <<"A","l","i","c","e">>
StrAcct == <<"a","c","c","t","_","1">>
StrAuto == <<"a","u","t","o">>
StrStDevice == <<"s","t","-","d","e","v">>
StrWarning == <<"e","x","p","i","r","e","d">>

\* The name Profile.GetAPIKey reads its override from.
APIKeyEnvName == "STRIPE_API_KEY"
DeviceNameEnvName == "STRIPE_DEVICE_NAME"

NoExpiry == [kind |-> "absent", day |-> 0]
BadExpiry == [kind |-> "malformed", day |-> 0]

\* Profile.GetAPIKey(livemode): the override of the environment, then the
\* secure store (live mode) or the plaintext field (test mode).
GetAPIKey(livemode) ==
    LET envKey == Getenv(environ, APIKeyEnvName)
        key == IF livemode
               THEN IF KeyRing.available THEN KeyRing.live_mode_api_key ELSE EmptyStr
               ELSE profilesFile.test_mode_api_key
    IN  IF envKey # EmptyStr THEN [key |-> envKey, err |-> FALSE]
        ELSE IF key # EmptyStr THEN [key |-> key, err |-> FALSE]
        ELSE [key |-> EmptyStr, err |-> TRUE]

\* Profile.GetDeviceName()
GetDeviceName ==
    LET envName == Getenv(environ, DeviceNameEnvName)
    IN  IF envName # EmptyStr THEN [val |-> envName, err |-> FALSE]
        ELSE IF profilesFile.device_name # EmptyStr
             THEN [val |-> profilesFile.device_name, err |-> FALSE]
             ELSE [val |-> EmptyStr, err |-> TRUE]

\* time.Time: the zero time, or an instant in hours.
ZeroTime == [zero |-> TRUE, h |-> 0]
HoursPerDay == 24

\* Profile.GetExpiresAt(livemode): the recorded date at midnight.
GetExpiresAt(livemode) ==
    LET e == IF livemode THEN profilesFile.live_mode_key_expires_at
                         ELSE profilesFile.test_mode_key_expires_at
    IN  CASE e.kind = "absent" -> [t |-> ZeroTime, err |-> FALSE]
          [] e.kind = "malformed" -> [t |-> ZeroTime, err |-> TRUE]
          [] OTHER -> [t |-> [zero |-> FALSE, h |-> e.day * HoursPerDay], err |-> FALSE]

\* DateStringFormat: a date string is one character naming the day.
DateDigits == <<"0", "1", "2", "3", "4", "5", "6", "7", "8", "9">>

\* t.Format(DateStringFormat): the day of the instant, its time of day dropped.
FormatDate(t) == <<DateDigits[(t.h \div HoursPerDay) + 1]>>

\* time.Parse(DateStringFormat, s): midnight of the day named.
ParseDate(s) ==
    IF Len(s) = 1 /\ \E i \in DOMAIN DateDigits : DateDigits[i] = s[1]
    THEN [h |-> ((CHOOSE i \in DOMAIN DateDigits : DateDigits[i] = s[1]) - 1) * HoursPerDay,
          err |-> FALSE]
    ELSE [h |-> 0, err |-> TRUE]

\* RedactAPIKey(key): the leading characters naming the key's type and mode
\* are kept, every other character is masked.
RedactPrefixLen == 8
Stars(n) == [i \in 1..n |-> "*"]
RedactAPIKey(key) ==
    LET keep == IF Len(key) > RedactPrefixLen THEN RedactPrefixLen ELSE 0
    IN  SubSeq(key, 1, keep) \o Stars(Len(key) - keep)

(***************************************************************************)
(* whoami                                                                  *)
(***************************************************************************)
GraceHours == 24

\* time.Now().After(exp.Add(24 * time.Hour))
\* (variant: stale from the end of the grace period on)
AppearsExpiredMutAtGrace(exp, t) == t >= exp + GraceHours
AppearsExpired(exp, t) == t > exp + GraceHours

\* out.HasTestKey / out.HasLiveKey
HasKey(r) == ~r.err /\ r.key # EmptyStr

\* out.TestAPIKey / out.LiveAPIKey
\* (variant: the key itself)
ShownKeyMutRaw(r) == IF showKeys /\ HasKey(r) THEN r.key ELSE EmptyStr
ShownKey(r) == IF showKeys /\ HasKey(r) THEN RedactAPIKey(r.key) ELSE EmptyStr

\* out.TestKeyExp / out.LiveKeyExp
KeyExp(r) == IF ~r.err /\ ~r.t.zero THEN FormatDate(r.t) ELSE EmptyStr

BoolStr(b) == IF b THEN StrTrue ELSE StrFalse

\* The whoamiOutput record the command builds.
WhoamiOut ==
    LET testKey == GetAPIKey(FALSE)
        liveKey == GetAPIKey(TRUE)
        dev == GetDeviceName
    IN  [ProjectName |-> StrTest,
         AccountID |-> profilesFile.account_id,
         DisplayName |-> profilesFile.display_name,
         DeviceName |-> IF dev.err THEN EmptyStr ELSE dev.val,
         Color |-> StrAuto,
         HasTestKey |-> HasKey(testKey),
         HasLiveKey |-> HasKey(liveKey),
         TestKeyExp |-> KeyExp(GetExpiresAt(FALSE)),
         LiveKeyExp |-> KeyExp(GetExpiresAt(TRUE)),
         TestAPIKey |-> ShownKey(testKey),
         LiveAPIKey |-> ShownKey(liveKey)]

Field(name, value) == [field |-> name, value |-> value]
OmitEmpty(entries) == SelectSeq(entries, LAMBDA e : e.value # EmptyStr)

\* json.MarshalIndent(out): the fields in the struct's order, the omitempty
\* ones left out when empty.
JSONOutput(out) ==
    <<Field("project_name", out.ProjectName)>>
    \o OmitEmpty(<<Field("account_id", out.AccountID),
                   Field("display_name", out.DisplayName),
                   Field("device_name", out.DeviceName),
                   Field("color", out.Color)>>)
    \o <<Field("has_test_mode_api_key", BoolStr(out.HasTestKey)),
         Field("has_live_mode_api_key", BoolStr(out.HasLiveKey))>>
    \o OmitEmpty(<<Field("test_mode_key_expires_at", out.TestKeyExp),
                   Field("live_mode_key_expires_at", out.LiveKeyExp),
                   Field("test_mode_api_key", out.TestAPIKey),
                   Field("live_mode_api_key", out.LiveAPIKey)>>)

\* The staleness warning that ends the line-oriented output.
ExpiryWarning(out) ==
    IF out.TestKeyExp # EmptyStr
       /\ ~ParseDate(out.TestKeyExp).err
       /\ AppearsExpired(ParseDate(out.TestKeyExp).h, now)
    THEN <<Field("warning", StrWarning)>>
    ELSE <<>>

\* The line-oriented output.
HumanKeyLines(out) ==
    IF showKeys
    THEN (IF out.HasTestKey THEN <<Field("test_mode_api_key", out.TestAPIKey)>> ELSE <<>>)
         \o (IF out.HasLiveKey THEN <<Field("live_mode_api_key", out.LiveAPIKey)>> ELSE <<>>)
    ELSE <<>>

HumanOutput(out) ==
    <<Field("project-name", out.ProjectName)>>
    \o OmitEmpty(<<Field("display_name", out.DisplayName),
                   Field("account_id", out.AccountID),
                   Field("device_name", out.DeviceName),
                   Field("color", out.Color)>>)
    \o <<Field("has_test_mode_api_key", BoolStr(out.HasTestKey))>>
    \o OmitEmpty(<<Field("test_mode_key_expires_at", out.TestKeyExp)>>)
    \o <<Field("has_live_mode_api_key", BoolStr(out.HasLiveKey))>>
    \o OmitEmpty(<<Field("live_mode_key_expires_at", out.LiveKeyExp)>>)
    \o HumanKeyLines(out)
    \o ExpiryWarning(out)

\* The command's RunE, run once loadDotenvFromFlags has returned.
whoami ==
    /\ pc = "ready"
    /\ IF ~activeProfile
       THEN /\ whoamiErr' = "no active profile found"
            /\ UNCHANGED stdout
       ELSE /\ stdout' = IF asJSON THEN JSONOutput(WhoamiOut) ELSE HumanOutput(WhoamiOut)
            /\ UNCHANGED whoamiErr
    /\ pc' = "done"
    /\ UNCHANGED <<dotenvVars, profilesFile, KeyRing, asJSON, showKeys, now,
                   cfgProfile, lastLogin, logins, activeProfile>>

(***************************************************************************)
(* LoginWithAPIKey                                                         *)
(***************************************************************************)
Whitespace == {" ", "\t", "\n", "\r"}

\* strings.TrimSpace
RECURSIVE TrimLeft(_)
TrimLeft(s) == IF s # <<>> /\ Head(s) \in Whitespace THEN TrimLeft(Tail(s)) ELSE s
RECURSIVE TrimRight(_)
TrimRight(s) ==
    IF s # <<>> /\ s[Len(s)] \in Whitespace THEN TrimRight(SubSeq(s, 1, Len(s) - 1)) ELSE s
TrimSpace(s) == TrimRight(TrimLeft(s))

\* strings.Split(s, "_")
RECURSIVE SplitUnderscore(_)
SplitUnderscore(s) ==
    IF \A i \in DOMAIN s : s[i] # "_" THEN <<s>>
    ELSE LET i == CHOOSE j \in DOMAIN s : s[j] = "_" /\ \A h \in 1..(j - 1) : s[h] # "_"
         IN  <<SubSeq(s, 1, i - 1)>> \o SplitUnderscore(SubSeq(s, i + 1, Len(s)))

\* validators.APIKey(key): "" when the key is well formed, else the error.
APIKeyError(key) ==
    LET parts == SplitUnderscore(key)
    IN  CASE key = EmptyStr -> "not configured"
          [] Len(parts) < 3 -> "legacy-style key"
          [] parts[1] \notin {<<"s", "k">>, <<"r", "k">>} -> "not a secret or restricted key"
          [] OTHER -> ""

\* Profile.CreateProfile(): the profile's block of the plaintext file is
\* replaced by the sandbox-tier key and the descriptive fields.
CreateProfile(file, profile) ==
    [file EXCEPT !.device_name = TrimSpace(profile.DeviceName),
                 !.test_mode_api_key = TrimSpace(profile.TestModeAPIKey),
                 !.display_name = profile.DisplayName]

NoLogin == [key |-> EmptyStr, err |-> "", remoteCalls |-> 0, createCalls |-> 0, printed |-> ""]

\* cfg.Profile.DeviceName after the device-name default.
DeviceNameOrHost(name, hostName) == IF TrimSpace(name) = EmptyStr THEN hostName ELSE name

\* cfg.Profile as the call leaves it: the early return on a validation error
\* comes before every assignment to it.
\* (variant: the device-name default is applied before the key is validated)
ProfileAfterLoginMutDeviceFirst(verr, profile) ==
    IF verr # "" THEN [cfgProfile EXCEPT !.DeviceName = profile.DeviceName] ELSE profile
ProfileAfterLogin(verr, profile) == IF verr # "" THEN cfgProfile ELSE profile

\* LoginWithAPIKey(ctx, apiBaseURL, cfg, apiKey).  hostName is what
\* os.Hostname() gives ("unknown" on its error), displayName what
\* getDisplayName returns ("" on its error), createErr whether CreateProfile
\* fails, verified whether SuccessMessage succeeds.
LoginWithAPIKey(rawKey, hostName, displayName, createErr, verified) ==
    LET apiKey == TrimSpace(rawKey)
        verr == APIKeyError(apiKey)
        profile == [DeviceName |-> DeviceNameOrHost(cfgProfile.DeviceName, hostName),
                    TestModeAPIKey |-> apiKey,
                    DisplayName |-> displayName]
    IN  /\ pc = "ready"
        /\ logins < MaxLogins
        /\ logins' = logins + 1
        /\ cfgProfile' = ProfileAfterLogin(verr, profile)
        /\ IF verr # ""
           THEN /\ lastLogin' = [key |-> rawKey, err |-> verr, remoteCalls |-> 0,
                                 createCalls |-> 0, printed |-> ""]
                /\ UNCHANGED profilesFile
           ELSE IF createErr
                THEN /\ lastLogin' = [key |-> rawKey, err |-> "create profile", remoteCalls |-> 1,
                                      createCalls |-> 1, printed |-> ""]
                     /\ UNCHANGED profilesFile
                ELSE /\ profilesFile' = CreateProfile(profilesFile, profile)
                     /\ lastLogin' = [key |-> rawKey, err |-> "", remoteCalls |-> 2,
                                      createCalls |-> 1,
                                      printed |-> IF verified THEN "done" ELSE "error verifying"]
        /\ UNCHANGED <<dotenvVars, pc, KeyRing, asJSON, showKeys, now, stdout,
                       activeProfile, whoamiErr>>

(***************************************************************************)
(* The process                                                             *)
(***************************************************************************)
vars == <<envFile, dotenv, fs, environ, pc, panicMsg, logged, printedLoaded,
          profilesFile, KeyRing, asJSON, showKeys, now, stdout,
          cfgProfile, lastLogin, logins, activeProfile, whoamiErr>>

\* The lines a file is made of: KEY=VALUE lines, and one that does not parse.
FileLines ==
    {[key |-> "STRIPE_SECRET_KEY", val |-> SkTest123, ok |-> TRUE],
     [key |-> "STRIPE_SECRET_KEY", val |-> SkTest456, ok |-> TRUE],
     [key |-> "STRIPE_DEVICE_NAME", val |-> TestDevice, ok |-> TRUE],
     [key |-> "STRIPE_API_KEY", val |-> SkTest456, ok |-> TRUE],
     [key |-> "", val |-> EmptyStr, ok |-> FALSE]}

RECURSIVE SeqsUpTo(_, _)
SeqsUpTo(S, n) ==
    IF n = 0 THEN {<<>>}
    ELSE LET shorter == SeqsUpTo(S, n - 1)
         IN  shorter \cup {Append(s, x) : s \in shorter, x \in S}

\* 0600, 0644, and 0640 and 0604 beside them.
Modes == {Mode0600, Mode0644, 416, 388}

Files ==
    {NoFile, StatFails}
    \cup {[stat |-> "ok", mode |-> m, lines |-> l] : m \in Modes, l \in SeqsUpTo(FileLines, MaxLines)}

\* The other file of the directory: absent, or a readable file of its own.
OtherFiles ==
    {NoFile,
     [stat |-> "ok", mode |-> Mode0600,
      lines |-> <<[key |-> "STRIPE_SECRET_KEY", val |-> SkTestExisting, ok |-> TRUE]>>]}

\* Each variable is absent, present and empty, or present with a value.
EnvValue(k) == IF k = "STRIPE_DEVICE_NAME" THEN DeviceFromEnv ELSE SkTestExisting

Environs ==
    {e \in [EnvNames -> {Unset, Present(EmptyStr), Present(DeviceFromEnv), Present(SkTestExisting)}] :
        \A k \in EnvNames : e[k] \in {Unset, Present(EmptyStr), Present(EnvValue(k))}}

\* The profile block of the whoami tests.
TestProfile ==
    [account_id |-> StrAcct, display_name |-> StrAlice, device_name |-> EmptyStr,
     test_mode_api_key |-> SkTest1234abcd,
     test_mode_key_expires_at |-> [kind |-> "date", day |-> 1],
     live_mode_key_expires_at |-> [kind |-> "date", day |-> 2]]

\* cfg.Profile as InitConfig leaves it when no login is run.
NotLoggingIn ==
    /\ cfgProfile = [DeviceName |-> EmptyStr, TestModeAPIKey |-> EmptyStr, DisplayName |-> EmptyStr]
    /\ lastLogin = NoLogin
    /\ logins = 0

Init ==
    /\ envFile \in {NoPath, CustomPath}
    /\ dotenv \in BOOLEAN
    /\ \E f \in Files, o \in OtherFiles :
          fs = [p \in Paths |-> IF p = SelectedPath THEN f ELSE o]
    /\ environ \in Environs
    /\ pc = "start"
    /\ panicMsg = ""
    /\ logged = {}
    /\ printedLoaded = FALSE
    /\ profilesFile = TestProfile
    /\ KeyRing = [available |-> TRUE, live_mode_api_key |-> RkLive0001]
    /\ asJSON = FALSE
    /\ showKeys = TRUE
    /\ now = 0
    /\ stdout = <<>>
    /\ NotLoggingIn
    /\ activeProfile = TRUE
    /\ whoamiErr = ""

Next == loadDotenvFromFlags \/ whoami

Spec == Init /\ [][Next]_vars

\* whoami run over every profile, secure store, flag and clock of the bounds,
\* after an auto-load of the working directory's .env.
Expiries == {NoExpiry, BadExpiry} \cup {[kind |-> "date", day |-> d] : d \in 0..MaxDay}

InitWhoami ==
    /\ envFile = NoPath
    /\ dotenv = FALSE
    /\ fs \in {[p \in Paths |-> NoFile],
               [p \in Paths |-> IF p = DotEnvPath
                                THEN [stat |-> "ok", mode |-> Mode0600,
                                      lines |-> <<[key |-> "STRIPE_SECRET_KEY", val |-> SkTest123, ok |-> TRUE]>>]
                                ELSE NoFile]}
    /\ \E k \in {Unset, Present(EmptyStr), Present(SkLive9999)} :
          environ = [n \in EnvNames |->
                        CASE n = "STRIPE_API_KEY" -> k
                          [] n = "STRIPE_DEVICE_NAME" -> Present(DeviceFromEnv)
                          [] OTHER -> Unset]
    /\ pc = "start"
    /\ panicMsg = ""
    /\ logged = {}
    /\ printedLoaded = FALSE
    /\ \E tk \in {EmptyStr, SkTest1234abcd}, te \in Expiries, le \in {NoExpiry, [kind |-> "date", day |-> 2]} :
          profilesFile = [account_id |-> StrAcct, display_name |-> StrAlice, device_name |-> EmptyStr,
                          test_mode_api_key |-> tk,
                          test_mode_key_expires_at |-> te,
                          live_mode_key_expires_at |-> le]
    /\ KeyRing \in {[available |-> FALSE, live_mode_api_key |-> EmptyStr],
                    [available |-> TRUE, live_mode_api_key |-> EmptyStr],
                    [available |-> TRUE, live_mode_api_key |-> RkLive0001]}
    /\ asJSON \in BOOLEAN
    /\ showKeys \in BOOLEAN
    /\ now \in 0..MaxNow
    /\ stdout = <<>>
    /\ NotLoggingIn
    /\ activeProfile \in BOOLEAN
    /\ whoamiErr = ""

SpecWhoami == InitWhoami /\ [][Next]_vars

\* Logins with keys of every shape, over a fresh or an existing profile file.
SpacedSkTest == <<" ">> \o SkTest1234abcd \o <<"\n">>
PkTest == <<"p","k","_","t","e","s","t","_","1">>
LegacyKey == <<"s","k","_","1","2","3","4">>
LoginKeys == {EmptyStr, <<" ">>, LegacyKey, PkTest, SkTest1234abcd, SpacedSkTest, SkLive9999, RkLive0001}
HostNames == {<<"h","o","s","t">>, <<"u","n","k","n","o","w","n">>}
DisplayNames == {EmptyStr, StrAlice}
EmptyProfileFile ==
    [account_id |-> EmptyStr, display_name |-> EmptyStr, device_name |-> EmptyStr,
     test_mode_api_key |-> EmptyStr,
     test_mode_key_expires_at |-> NoExpiry,
     live_mode_key_expires_at |-> NoExpiry]

InitLogin ==
    /\ envFile = NoPath
    /\ dotenv = FALSE
    /\ fs = [p \in Paths |-> NoFile]
    /\ environ = [n \in EnvNames |-> Unset]
    /\ pc = "ready"
    /\ panicMsg = ""
    /\ logged = {}
    /\ printedLoaded = FALSE
    /\ profilesFile \in {EmptyProfileFile, TestProfile}
    /\ KeyRing = [available |-> TRUE, live_mode_api_key |-> EmptyStr]
    /\ asJSON = FALSE
    /\ showKeys = FALSE
    /\ now = 0
    /\ stdout = <<>>
    /\ cfgProfile \in {[DeviceName |-> d, TestModeAPIKey |-> EmptyStr, DisplayName |-> EmptyStr] :
                          d \in {EmptyStr, <<" ">>, StrStDevice}}
    /\ lastLogin = NoLogin
    /\ logins = 0
    /\ activeProfile = TRUE
    /\ whoamiErr = ""

NextLogin ==
    \E k \in LoginKeys, h \in HostNames, d \in DisplayNames, c \in BOOLEAN, v \in BOOLEAN :
        LoginWithAPIKey(k, h, d, c, v)

SpecLogin == InitLogin /\ [][NextLogin]_vars

(***************************************************************************)
(* Properties of loadDotenvFromFlags                                       *)
(***************************************************************************)
\* The call of loadDotenvFromFlags: the step that leaves "start".
DotenvCall == pc = "start" /\ pc' # "start"
Selected == fs[SelectedPath]
Requested == envFile # "" \/ dotenv
ClaimAllowlist == {"STRIPE_SECRET_KEY", "STRIPE_DEVICE_NAME"}
OthersReadBit(mode) == mode % 8 \in {4, 5, 6, 7}
Parses(f) == ~godotenvRead(f).err
Defines(f, k) == Parses(f) /\ k \in DOMAIN godotenvRead(f).env
Loaded == "debug:loaded" \in logged

\* C2: an allow-listed variable present in the environment before the call
\* (with any value, the empty string included) has the same value after it.
C2_PresentValueKept ==
    [][DotenvCall => \A k \in ClaimAllowlist : environ[k].set => environ'[k] = environ[k]]_vars

\* A load has run over a file that defines both names, one present as the
\* empty string and one present with a value of its own.
C2_Witness ==
    /\ pc = "ready" /\ Loaded
    /\ Defines(Selected, "STRIPE_SECRET_KEY") /\ Defines(Selected, "STRIPE_DEVICE_NAME")
    /\ environ["STRIPE_SECRET_KEY"] = Present(EmptyStr)
    /\ environ["STRIPE_DEVICE_NAME"] = Present(DeviceFromEnv)
    /\ godotenvRead(Selected).env["STRIPE_DEVICE_NAME"] # DeviceFromEnv

\* C3 as claimed: for a well-formed file the call panics exactly when
\* ingestion was requested and the file is missing or world-readable.
C3_FatalIffRequestedAndMissingOrWorldReadable ==
    (pc # "start" /\ Parses(Selected)) =>
        (pc = "panicked" <=>
            (Requested /\ (Selected.stat = "notexist"
                           \/ (Selected.stat = "ok" /\ OthersReadBit(Selected.mode)))))

\* C3 amended: for a well-formed file the call panics exactly when ingestion
\* was requested and os.Stat fails (the file is missing, or any other stat
\* error) or the file is world-readable; otherwise it returns.
C3_FatalIffRequestedAndStatFailsOrWorldReadable ==
    (pc # "start" /\ Parses(Selected)) =>
        /\ pc = "panicked" <=>
              (Requested /\ (Selected.stat # "ok" \/ OthersReadBit(Selected.mode)))
        /\ pc # "panicked" => pc \in {"ready", "done"}

\* A requested, world-readable, well-formed file has ended the call fatally.
C3_Witness ==
    /\ pc = "panicked" /\ dotenv /\ envFile = ""
    /\ Selected.stat = "ok" /\ Selected.mode = Mode0644
    /\ Defines(Selected, "STRIPE_SECRET_KEY")

\* C4: in every outcome other than a load the environment after the call is
\* the environment before it.
C4_NoLoadNoChange ==
    [][(DotenvCall /\ ~Loaded') => environ' = environ]_vars

\* Auto-load has skipped a world-readable file that defines a variable the
\* environment lacks.
C4_Witness ==
    /\ pc = "ready" /\ ~Requested /\ "warn:permissive" \in logged
    /\ Defines(Selected, "STRIPE_SECRET_KEY")
    /\ ~environ["STRIPE_SECRET_KEY"].set

\* C5: when the selected file exists, is not world-readable and parses, every
\* allow-listed name it defines and the environment lacks ends up set to the
\* file's value, in each of the three modes.
C5_AbsentNamesImported ==
    [][(DotenvCall /\ Selected.stat = "ok" /\ ~OthersReadBit(Selected.mode) /\ Parses(Selected)) =>
          \A k \in ClaimAllowlist :
              (k \in DOMAIN godotenvRead(Selected).env /\ ~environ[k].set) =>
                  environ'[k] = Present(godotenvRead(Selected).env[k])]_vars

\* Auto-load of a 0600 .env has set both names from the file.
C5_Witness ==
    /\ pc = "ready" /\ ~Requested
    /\ Selected.stat = "ok" /\ Selected.mode = Mode0600
    /\ Selected.lines = <<[key |-> "STRIPE_SECRET_KEY", val |-> SkTest123, ok |-> TRUE],
                          [key |-> "STRIPE_DEVICE_NAME", val |-> TestDevice, ok |-> TRUE]>>
    /\ environ["STRIPE_SECRET_KEY"] = Present(SkTest123)
    /\ environ["STRIPE_DEVICE_NAME"] = Present(TestDevice)

\* C6: the call neither creates nor changes a variable outside the allow-list.
C6_OnlyAllowlistedNamesChange ==
    [][DotenvCall => \A k \in EnvNames \ ClaimAllowlist : environ'[k] = environ[k]]_vars

\* A load has run over a file that defines a name outside the allow-list,
\* which the environment still lacks.
C6_Witness ==
    /\ pc = "ready" /\ Loaded
    /\ Defines(Selected, "STRIPE_API_KEY")
    /\ ~environ["STRIPE_API_KEY"].set

\* C7 as claimed: when ingestion was not requested the call never ends
\* fatally.
C7_AutoLoadNeverFatal ==
    ~Requested => pc # "panicked"

\* C10 as claimed: after a load of a file defining the secret-key variable,
\* with no key override in the environment before, GetAPIKey returns the
\* ingested value in either mode.
C10_IngestedKeyIsResolved ==
    [][(DotenvCall /\ Loaded' /\ Defines(Selected, "STRIPE_SECRET_KEY")
        /\ ~environ["STRIPE_SECRET_KEY"].set /\ ~environ["STRIPE_API_KEY"].set) =>
          \A livemode \in BOOLEAN :
              GetAPIKey(livemode)' =
                  [key |-> godotenvRead(Selected).env["STRIPE_SECRET_KEY"], err |-> FALSE]]_vars

(***************************************************************************)
(* Properties of whoami                                                    *)
(***************************************************************************)
Printed(name) == \E i \in DOMAIN stdout : stdout[i].field = name
ValueOf(name) == stdout[CHOOSE i \in DOMAIN stdout : stdout[i].field = name].value
Resolved(r) == ~r.err /\ r.key # EmptyStr

\* C8: in both output forms a per-mode key field is printed iff --show-keys
\* was given and the mode's key resolved without error to a non-empty value;
\* its value is RedactAPIKey of the resolved key and not the key; the has_*
\* fields report the keys whether or not --show-keys was given.
C8_KeyFieldsOnlyRedactedOnRequest ==
    (pc = "done" /\ whoamiErr = "") =>
        \A m \in {[live |-> FALSE, key |-> "test_mode_api_key", has |-> "has_test_mode_api_key"],
                  [live |-> TRUE, key |-> "live_mode_api_key", has |-> "has_live_mode_api_key"]} :
            LET r == GetAPIKey(m.live)
            IN  /\ Printed(m.key) <=> (showKeys /\ Resolved(r))
                /\ Printed(m.key) => (ValueOf(m.key) = RedactAPIKey(r.key) /\ ValueOf(m.key) # r.key)
                /\ Cardinality({i \in DOMAIN stdout : stdout[i].field = m.key}) <= 1
                /\ Printed(m.has) /\ ValueOf(m.has) = (IF Resolved(r) THEN StrTrue ELSE StrFalse)

\* --show-keys has printed the redacted test-mode key and, the secure store
\* being unavailable, no live-mode key.
C8_Witness ==
    /\ pc = "done" /\ showKeys /\ ~asJSON
    /\ ~environ["STRIPE_API_KEY"].set
    /\ profilesFile.test_mode_api_key = SkTest1234abcd
    /\ ~KeyRing.available
    /\ Printed("test_mode_api_key") /\ ~Printed("live_mode_api_key")
    /\ ValueOf("test_mode_api_key") = <<"s","k","_","t","e","s","t","_","*","*","*","*","*","*","*","*">>

\* C9: the staleness check of the line-oriented output flags the test-mode
\* key exactly when an expiry date is recorded and the clock is more than 24
\* hours past the date's midnight; without a recorded date it never does.
C9_StaleOnlyPastGrace ==
    (pc = "done" /\ whoamiErr = "" /\ ~asJSON) =>
        LET e == profilesFile.test_mode_key_expires_at
        IN  Printed("warning") <=> (e.kind = "date" /\ now > e.day * 24 + 24)

\* The key of day 1 is flagged at 25 hours past its date.
C9_Witness ==
    /\ pc = "done" /\ ~asJSON
    /\ profilesFile.test_mode_key_expires_at = [kind |-> "date", day |-> 1]
    /\ now = 49
    /\ Printed("warning")

(***************************************************************************)
(* Properties of LoginWithAPIKey                                           *)
(***************************************************************************)
IsLiveModeKey(k) == Len(SplitUnderscore(k)) >= 3 /\ SplitUnderscore(k)[2] = <<"l","i","v","e">>

\* C1 as claimed: whatever validated keys the logins were given, no field of
\* the plaintext profile file holds a live-mode key.
C1_NoLiveKeyInPlaintextFile ==
    \A f \in {"account_id", "display_name", "device_name", "test_mode_api_key"} :
        ~IsLiveModeKey(profilesFile[f])

\* The call of LoginWithAPIKey, and the key it was given, trimmed.
LoginCall == logins' = logins + 1
GivenKey == TrimSpace(lastLogin.key)

\* C11: a call whose trimmed key fails validation returns that error, leaves
\* every field of cfg.Profile and the profile file as they were, and neither
\* calls CreateProfile nor contacts the remote service; CreateProfile is
\* reached only with a key that passed validation.
C11_InvalidKeyTouchesNothing ==
    [][LoginCall =>
          /\ APIKeyError(GivenKey') # "" =>
                /\ lastLogin'.err = APIKeyError(GivenKey')
                /\ cfgProfile' = cfgProfile
                /\ profilesFile' = profilesFile
                /\ lastLogin'.createCalls = 0
                /\ lastLogin'.remoteCalls = 0
          /\ lastLogin'.createCalls > 0 =>
                /\ APIKeyError(GivenKey') = ""
                /\ cfgProfile'.TestModeAPIKey = GivenKey']_vars

\* A login with a legacy-style key has failed on a profile whose device name
\* was blank, after an earlier login had succeeded with a spaced key.
C11_Witness ==
    /\ logins = 2
    /\ lastLogin.key = LegacyKey
    /\ lastLogin.err = "legacy-style key"
    /\ lastLogin.createCalls = 0 /\ lastLogin.remoteCalls = 0
    /\ cfgProfile.TestModeAPIKey = SkTest1234abcd
    /\ profilesFile.test_mode_api_key = SkTest1234abcd

=============================================================================
